---- MODULE Spec2Model ----
(***************************************************************************)
(* A model of the myCobot protocol client (src/src/operator.rs): the frame *)
(* codec (concat_message, process_received), the unit codec (angle_to_int, *)
(* coord_to_int, ...) and the public operations of MyCobotOperator over a  *)
(* Connection that records every transaction it is handed.                 *)
(*                                                                         *)
(* Bytes are the integers 0..255, i16 values the integers -32768..32767.   *)
(* Source indices are 0-based; At(s, i) reads s[i] the way the source does.*)
(* A Rust panic (index out of bounds, arithmetic overflow in a build with  *)
(* overflow checks) is the outcome "panic" of the function it happens in.  *)
(***************************************************************************)
EXTENDS Integers, Sequences, FiniteSets, TLC

VARIABLES
    overflow_checks, \* the build: TRUE = debug (overflow panics), FALSE = release (wraps)
    \* --- the operator and its connection
    history,         \* the public operations called so far, in call order
    conn_log,        \* what the Connection saw: one entry per write / write_and_read
    wire,            \* the frame of the latest Connection call
    last,            \* the latest call: operation, arguments' id, transport outcome, reply
    ret,             \* what the latest call returned to its caller
    \* --- the frame codec applied to one reply buffer
    noise,           \* bytes the transport delivered before the frame
    cmd,             \* opcode the frame is built with
    command_data,    \* payload the frame is built with
    genre,           \* opcode process_received is asked for
    data,            \* the reply buffer
    phase,           \* "init" | "framed" | "partial" | "done" | "idle"
    valid_data,      \* the slice process_received selected at line 106, if it got there
    received,        \* what process_received returned
    \* --- the unit codec applied to one value
    unit_fn,         \* "angle_to_int" | "coord_to_int" | "idle"
    input,           \* the f64 argument, as the numerator of input / Grid
    encoded          \* the i16 result, or "pending"

vars == <<overflow_checks, history, conn_log, wire, last, ret,
          noise, cmd, command_data, genre, data, phase, valid_data, received,
          unit_fn, input, encoded>>

operator_vars == <<history, conn_log, wire, last, ret>>
codec_vars == <<noise, cmd, command_data, genre, data, phase, valid_data, received>>
unit_vars == <<unit_fn, input, encoded>>

---------------------------------------------------------------------------
(* Bounds of the model. *)

\* Longest payload enumerated byte by byte (longer ones are the fills below).
MaxPayloadLen == 2
\* Longest leading noise enumerated byte by byte.
MaxNoiseLen == 2
\* A partial read keeps at most this many bytes of the reply.
MaxKeep == 6
\* Public operations called in one run.
MaxCalls == 2
\* f64 inputs are the dyadic values n / Grid, |n| <= MaxNum: for these the
\* products n/Grid * 100.0 and n/Grid * 10.0 are exact in f64.
Grid == 4
MaxNum == 13200

---------------------------------------------------------------------------
(* The command catalog (common.rs: Command, Angle, Coord, Direction). *)

HEADER == 254
FOOTER == 254
VERSION == 0
POWER_ON == 16
POWER_OFF == 17
IS_POWER_ON == 18
RELEASE_ALL_SERVOS == 19
IS_CONTROLLER_CONNECTED == 20
GET_ANGLES == 32
SEND_ANGLE == 33
SEND_ANGLES == 34
GET_COORDS == 35
SEND_COORD == 36
SEND_COORDS == 37
PAUSE == 38
IS_PAUSED == 39
RESUME == 40
STOP == 41
IS_IN_POSITION == 42
IS_MOVING == 43
JOG_ANGLE == 48
JOG_COORD == 50
JOG_STOP == 52
SET_ENCODER == 58
GET_ENCODER == 59
IS_SERVO_ENABLE == 80

\* The discriminants (`id as u8`) of the six joints and of the six pose axes.
Angle == 1..6
Coord == 1..6
Direction == {0, 1}

---------------------------------------------------------------------------
(* Fixed-width integers. *)

\* `x as u8` of a usize: the low 8 bits.
as_u8(x) == x % 256

\* i8::from_be_bytes([b]).
from_be_bytes(b) == IF b >= 128 THEN b - 256 ELSE b

\* BigEndian::read_i16 of the two bytes hi, lo.
read_i16(hi, lo) ==
    LET u == hi * 256 + lo
    IN  IF u >= 32768 THEN u - 65536 ELSE u

\* BigEndian::write_i16: the two's-complement big-endian bytes of an i16.
write_i16(val) ==
    LET u == IF val < 0 THEN val + 65536 ELSE val
    IN  <<u \div 256, u % 256>>

\* s[i] with the source's 0-based index.
At(s, i) == s[i + 1]

\* &s[from..to] with the source's 0-based, end-exclusive bounds.
Slice(s, from, to) == SubSeq(s, from + 1, to)

\* A buffer of n bytes b.
Fill(n, b) == [i \in 1..n |-> b]

RECURSIVE SeqsUpTo(_, _)
\* All sequences over S of length 0..n.
SeqsUpTo(S, n) ==
    IF n = 0 THEN {<<>>}
    ELSE LET shorter == SeqsUpTo(S, n - 1)
         IN  shorter \cup {Append(s, x) : s \in {t \in shorter : Len(t) = n - 1}, x \in S}

---------------------------------------------------------------------------
(* The frame codec: operator.rs lines 62-122. *)

\* What a function did: it returned vals, or it panicked.  sliced / slice
\* record the local valid_data of process_received when line 106 was passed.
Returned(vals, slice) ==
    [outcome |-> "return", vals |-> vals, sliced |-> TRUE, slice |-> slice]
ReturnedEmpty ==
    [outcome |-> "return", vals |-> <<>>, sliced |-> FALSE, slice |-> <<>>]
Panicked(sliced, slice) ==
    [outcome |-> "panic", vals |-> <<>>, sliced |-> sliced, slice |-> slice]

encode_int16(val) == write_i16(val)

encode_int16_vec(vals) ==
    [k \in 1..(2 * Len(vals)) |->
        IF k % 2 = 1 THEN write_i16(vals[(k + 1) \div 2])[1]
                     ELSE write_i16(vals[k \div 2])[2]]

\* Called on two bytes only (line 113).
decode_int16(bytes) == read_i16(At(bytes, 0), At(bytes, 1))

\* data[0] of an empty slice is out of bounds.
decode_int8_panics(bytes) == Len(bytes) = 0
decode_int8(bytes) == from_be_bytes(At(bytes, 0))

\* Called on twelve bytes only (line 108): one value per pair of bytes.
decode_int16_vec(bytes) ==
    [k \in 1..(Len(bytes) \div 2) |-> read_i16(At(bytes, 2 * k - 2), At(bytes, 2 * k - 1))]

\* concat_message with the opcode left out of the declared length.
concat_message_short_len(op, payload) ==
    LET len == 1 + Len(payload)
        header == <<HEADER, HEADER, as_u8(len), op>>
    IN  header \o payload \o <<FOOTER>>

concat_message(op, payload) ==
    LET len == 2 + Len(payload)
        header == <<HEADER, HEADER, as_u8(len), op>>
    IN  header \o payload \o <<FOOTER>>

is_frame_header(bytes, pos) ==
    At(bytes, pos) = HEADER /\ At(bytes, pos + 1) = HEADER

\* A scan anchored at the start of the buffer: a header pair counts at index 0 only.
header_position_anchored(bytes) ==
    IF Len(bytes) >= 2 /\ is_frame_header(bytes, 0) THEN 0 ELSE -1

\* (0..(data.len() - 1)).position(is_frame_header): the first index of a
\* header pair, or -1 for None.  Defined for a non-empty buffer.
header_position(bytes) ==
    LET hits == {i \in 0..(Len(bytes) - 2) : is_frame_header(bytes, i)}
    IN  IF hits = {} THEN -1
        ELSE CHOOSE i \in hits : \A j \in hits : i <= j

\* process_received, with the slice it selected.
process_received_run(bytes, op) ==
    IF Len(bytes) = 0
    THEN \* data.len() - 1 underflows: a panic with overflow checks; without
         \* them the range is 0..usize::MAX and data[0] is out of bounds.
         Panicked(FALSE, <<>>)
    ELSE
    LET idx == header_position(bytes) IN
    IF idx = -1 THEN ReturnedEmpty
    ELSE IF idx + 2 >= Len(bytes) THEN Panicked(FALSE, <<>>)
    ELSE IF At(bytes, idx + 2) < 2 /\ overflow_checks THEN Panicked(FALSE, <<>>)
    ELSE
    LET data_len == (At(bytes, idx + 2) - 2) % 256 IN
    IF idx + 3 >= Len(bytes) THEN Panicked(FALSE, <<>>)
    ELSE
    LET cmd_id == At(bytes, idx + 3) IN
    IF cmd_id # op THEN ReturnedEmpty
    ELSE
    LET data_pos == idx + 4 IN
    IF data_pos + data_len > Len(bytes) THEN Panicked(FALSE, <<>>)
    ELSE
    LET valid == Slice(bytes, data_pos, data_pos + data_len) IN
    IF data_len = 12 THEN Returned(decode_int16_vec(valid), valid)
    ELSE IF data_len = 2
    THEN IF op = IS_SERVO_ENABLE
         THEN Returned(<<decode_int8(Slice(valid, 1, 2))>>, valid)
         ELSE Returned(<<decode_int16(valid)>>, valid)
    ELSE IF decode_int8_panics(valid) THEN Panicked(TRUE, valid)
    ELSE Returned(<<decode_int8(valid)>>, valid)

\* What the caller of process_received sees.
process_received(bytes, op) ==
    LET r == process_received_run(bytes, op)
    IN  [outcome |-> r.outcome, vals |-> r.vals]

---------------------------------------------------------------------------
(* The unit codec: operator.rs lines 7-48.  An f64 argument is the         *)
(* numerator n of the dyadic value n / Grid; an f64 result is the exact    *)
(* quotient [num, den] the division rounds.                                *)

\* The integer part of num / den, toward zero (den > 0).
TruncDiv(num, den) ==
    IF num >= 0 THEN num \div den ELSE -((-num) \div den)

\* `x as i16` of the f64 x = num / den: Rust's float-to-int cast truncates
\* toward zero and saturates at the bounds of i16.
f64_as_i16(num, den) ==
    LET t == TruncDiv(num, den)
    IN  IF t > 32767 THEN 32767
        ELSE IF t < -32768 THEN -32768
        ELSE t

angle_to_int(degree) == f64_as_i16(degree * 100, Grid)

coord_to_int(coord) == f64_as_i16(coord * 10, Grid)

int_to_angle(val) == [num |-> val, den |-> 100]

int_to_coord(val) == [num |-> val, den |-> 10]

coords_to_int_vec(coords) ==
    [k \in 1..Len(coords) |->
        IF k - 1 < 3 THEN coord_to_int(coords[k]) ELSE angle_to_int(coords[k])]

int_vec_to_coords(vals) ==
    [k \in 1..Len(vals) |->
        IF k - 1 < 3 THEN int_to_coord(vals[k]) ELSE int_to_angle(vals[k])]

---------------------------------------------------------------------------
(* Idle values of the parts of the state a specification does not use. *)

NoCall == [op |-> "none", id |-> 0, ok |-> TRUE, reply |-> <<>>]
NoReturn == [outcome |-> "none", val |-> 0, vals |-> <<>>]
NoSlice == [sliced |-> FALSE, slice |-> <<>>]
NoResult == [outcome |-> "pending", vals |-> <<>>]
NotEncoded == [done |-> FALSE, val |-> 0]

OperatorIdle ==
    /\ history = <<>> /\ conn_log = <<>> /\ wire = <<>>
    /\ last = NoCall /\ ret = NoReturn

CodecIdle ==
    /\ noise = <<>> /\ cmd = 0 /\ command_data = <<>> /\ genre = 0
    /\ data = <<>> /\ phase = "idle"
    /\ valid_data = NoSlice /\ received = NoResult

UnitIdle ==
    /\ unit_fn = "idle" /\ input = 0 /\ encoded = NotEncoded

---------------------------------------------------------------------------
(* The unit codec applied to one value: SpecUnit. *)

UnitInputs == (-MaxNum)..MaxNum

InitUnit ==
    /\ overflow_checks \in BOOLEAN
    /\ unit_fn \in {"angle_to_int", "coord_to_int"}
    /\ input \in UnitInputs
    /\ encoded = NotEncoded
    /\ OperatorIdle /\ CodecIdle

EncodeAngle ==
    /\ unit_fn = "angle_to_int" /\ ~encoded.done
    /\ encoded' = [done |-> TRUE, val |-> angle_to_int(input)]
    /\ UNCHANGED <<overflow_checks, unit_fn, input, operator_vars, codec_vars>>

EncodeCoord ==
    /\ unit_fn = "coord_to_int" /\ ~encoded.done
    /\ encoded' = [done |-> TRUE, val |-> coord_to_int(input)]
    /\ UNCHANGED <<overflow_checks, unit_fn, input, operator_vars, codec_vars>>

NextUnit == EncodeAngle \/ EncodeCoord

SpecUnit == InitUnit /\ [][NextUnit]_vars

---------------------------------------------------------------------------
(* The frame codec applied to one reply buffer: SpecCodec.  A frame is     *)
(* built from (cmd, command_data), arrives after some noise, possibly cut  *)
(* short by the transport, and is handed to process_received(data, genre). *)

PayloadBytes == {1, 128, HEADER}
NoiseBytes == {0, HEADER}
CodecGenres == {GET_ANGLES, IS_SERVO_ENABLE}

\* Six big-endian values: 0, 1, -1, -32768, 32767, 5000.
Pose12 == <<0, 0, 0, 1, 255, 255, 128, 0, 127, 255, 19, 136>>

LongLens == {3, 12, 252, 253, 254, 255}

Payloads ==
    SeqsUpTo(PayloadBytes, MaxPayloadLen)
        \cup {Fill(n, 1) : n \in LongLens} \cup {Pose12}

Noises == SeqsUpTo(NoiseBytes, MaxNoiseLen)

InitCodec ==
    /\ overflow_checks \in BOOLEAN
    /\ noise \in Noises
    /\ cmd \in CodecGenres
    /\ command_data \in Payloads
    /\ genre \in CodecGenres
    /\ data = <<>>
    /\ phase = "init"
    /\ valid_data = NoSlice
    /\ received = NoResult
    /\ OperatorIdle /\ UnitIdle

\* The device's frame arrives behind the noise.
Frame ==
    /\ phase = "init"
    /\ data' = noise \o concat_message(cmd, command_data)
    /\ phase' = "framed"
    /\ UNCHANGED <<overflow_checks, noise, cmd, command_data, genre, valid_data,
                   received, operator_vars, unit_vars>>

\* The transport times out: only the first k bytes arrived.
PartialRead ==
    /\ phase = "framed"
    /\ \E k \in 0..MaxKeep :
        /\ k < Len(data)
        /\ data' = SubSeq(data, 1, k)
    /\ phase' = "partial"
    /\ UNCHANGED <<overflow_checks, noise, cmd, command_data, genre, valid_data,
                   received, operator_vars, unit_vars>>

Receive ==
    /\ phase \in {"framed", "partial"}
    /\ LET r == process_received_run(data, genre)
       IN  /\ received' = [outcome |-> r.outcome, vals |-> r.vals]
           /\ valid_data' = [sliced |-> r.sliced, slice |-> r.slice]
    /\ phase' = "done"
    /\ UNCHANGED <<overflow_checks, noise, cmd, command_data, genre, data,
                   operator_vars, unit_vars>>

NextCodec == Frame \/ PartialRead \/ Receive

SpecCodec == InitCodec /\ [][NextCodec]_vars

---------------------------------------------------------------------------
(* The operator: operator.rs lines 123-299.  Every public operation builds *)
(* its payload and frame and hands the frame to the Connection, whose      *)
(* write / write_and_read may fail (an io::Error) and otherwise delivers   *)
(* whatever bytes arrived.                                                 *)

OkUnit == [outcome |-> "Ok", val |-> 0, vals |-> <<>>]
OkScalar(v) == [outcome |-> "Ok", val |-> v, vals |-> <<>>]
OkVec(vs) == [outcome |-> "Ok", val |-> 0, vals |-> vs]
Err == [outcome |-> "Err", val |-> 0, vals |-> <<>>]
Panic == [outcome |-> "panic", val |-> 0, vals |-> <<>>]

\* Arguments the caller passes.
Degrees == {45 * Grid}
Millimetres == {100 * Grid}
Speeds == {50}
Modes == {1}
Encoders == {-1}
SliceLens == {126, 127}
ExampleTarget == <<0, 0, 0, 0, 50 * Grid, 0>>
Slices == {Fill(n, 0) : n \in SliceLens} \cup {ExampleTarget}
Arrays6 == {ExampleTarget}

\* Reply buffers write_and_read may deliver to a query of opcode op: nothing,
\* a stray byte, the device's frame with a 1-byte, a 2-byte or (for the two
\* vector queries) a 12-byte payload, and a frame answering another opcode.
Replies(op) ==
    { <<>>,
      <<1>>,
      concat_message(op, <<1>>),
      concat_message(op, <<255, 254>>),
      concat_message(IS_SERVO_ENABLE, <<1>>) }
        \cup (IF op \in {GET_ANGLES, GET_COORDS}
              THEN {concat_message(op, Pose12)} ELSE {})

\* self.connection.write(&command): one transaction, which may fail.
connection_write(op, id, command) ==
    \E ok \in BOOLEAN :
        /\ history' = Append(history, op)
        /\ conn_log' = Append(conn_log, [call |-> "write", genre |-> At(command, 3)])
        /\ wire' = command
        /\ last' = [op |-> op, id |-> id, ok |-> ok, reply |-> <<>>]
        /\ ret' = IF ok THEN OkUnit ELSE Err
        /\ UNCHANGED <<overflow_checks, codec_vars, unit_vars>>

\* let res = self.connection.write_and_read(&command)?: one transaction,
\* which fails (last'.ok is FALSE) or delivers the reply last'.reply.
connection_write_and_read(op, id, command) ==
    /\ history' = Append(history, op)
    /\ conn_log' = Append(conn_log, [call |-> "write_and_read", genre |-> At(command, 3)])
    /\ wire' = command
    /\ \/ last' = [op |-> op, id |-> id, ok |-> FALSE, reply |-> <<>>]
       \/ \E res \in Replies(At(command, 3)) :
            last' = [op |-> op, id |-> id, ok |-> TRUE, reply |-> res]
    /\ UNCHANGED <<overflow_checks, codec_vars, unit_vars>>

\* Ok(if res.is_empty() { -1 } else { res[0] as i32 })
scalar_result(res) ==
    OkScalar(IF Len(res) = 0 THEN -1 ELSE At(res, 0))

\* res.iter().map(|&s| s as char).collect::<String>(): one char per byte,
\* the char whose code point is the byte.
version_result(res) == OkVec([k \in 1..Len(res) |-> res[k]])

get_angles_result(res) ==
    LET r == process_received(res, GET_ANGLES)
    IN  IF r.outcome = "panic" THEN Panic
        ELSE OkVec([k \in 1..Len(r.vals) |-> int_to_angle(r.vals[k])])

get_coords_result(res) ==
    LET r == process_received(res, GET_COORDS)
    IN  IF r.outcome = "panic" THEN Panic
        ELSE OkVec(int_vec_to_coords(r.vals))

MayCall == Len(history) < MaxCalls

version ==
    /\ MayCall
    /\ connection_write_and_read("version", 0, concat_message(VERSION, <<>>))
    /\ ret' = IF last'.ok THEN version_result(last'.reply) ELSE Err

power_on ==
    /\ MayCall
    /\ connection_write("power_on", 0, concat_message(POWER_ON, <<>>))

power_off ==
    /\ MayCall
    /\ connection_write("power_off", 0, concat_message(POWER_OFF, <<>>))

is_power_on ==
    /\ MayCall
    /\ connection_write_and_read("is_power_on", 0,
            concat_message(IS_POWER_ON, <<>>))
    /\ ret' = IF last'.ok THEN scalar_result(last'.reply) ELSE Err

release_all_servos ==
    /\ MayCall
    /\ connection_write("release_all_servos", 0, concat_message(RELEASE_ALL_SERVOS, <<>>))

is_controller_connected ==
    /\ MayCall
    /\ connection_write_and_read("is_controller_connected", 0,
            concat_message(IS_CONTROLLER_CONNECTED, <<>>))
    /\ ret' = IF last'.ok THEN scalar_result(last'.reply) ELSE Err

get_angles ==
    /\ MayCall
    /\ connection_write_and_read("get_angles", 0,
            concat_message(GET_ANGLES, <<>>))
    /\ ret' = IF last'.ok THEN get_angles_result(last'.reply) ELSE Err

send_angle_data(id, degree, speed) ==
    <<id>> \o encode_int16(angle_to_int(degree)) \o <<speed>>

send_angle ==
    /\ MayCall
    /\ \E id \in Angle, degree \in Degrees, speed \in Speeds :
        connection_write("send_angle", id,
            concat_message(SEND_ANGLE, send_angle_data(id, degree, speed)))

send_angles_data(degrees, speed) ==
    encode_int16_vec([k \in 1..Len(degrees) |-> angle_to_int(degrees[k])]) \o <<speed>>

\* send_angles calling write a second time when the first call failed.
send_angles_retry ==
    /\ MayCall
    /\ \E degrees \in Slices, speed \in Speeds, ok \in BOOLEAN, again \in BOOLEAN :
        LET command == concat_message(SEND_ANGLES, send_angles_data(degrees, speed))
            entry == [call |-> "write", genre |-> At(command, 3)]
        IN  /\ history' = Append(history, "send_angles")
            /\ conn_log' = IF ok THEN Append(conn_log, entry)
                           ELSE Append(Append(conn_log, entry), entry)
            /\ wire' = command
            /\ last' = [op |-> "send_angles", id |-> 0, ok |-> ok \/ again, reply |-> <<>>]
            /\ ret' = IF ok \/ again THEN OkUnit ELSE Err
            /\ UNCHANGED <<overflow_checks, codec_vars, unit_vars>>

send_angles ==
    /\ MayCall
    /\ \E degrees \in Slices, speed \in Speeds :
        connection_write("send_angles", 0,
            concat_message(SEND_ANGLES, send_angles_data(degrees, speed)))

get_coords ==
    /\ MayCall
    /\ connection_write_and_read("get_coords", 0,
            concat_message(GET_COORDS, <<>>))
    /\ ret' = IF last'.ok THEN get_coords_result(last'.reply) ELSE Err

send_coord_data(id, coord, speed) ==
    <<id - 1>> \o encode_int16(coord_to_int(coord)) \o <<speed>>

send_coord ==
    /\ MayCall
    /\ \E id \in Coord, coord \in Millimetres, speed \in Speeds :
        connection_write("send_coord", id,
            concat_message(SEND_COORD, send_coord_data(id, coord, speed)))

send_coords_data(coords, speed, mode) ==
    encode_int16_vec(coords_to_int_vec(coords)) \o <<speed>> \o <<mode>>

send_coords ==
    /\ MayCall
    /\ \E coords \in Slices, speed \in Speeds, mode \in Modes :
        connection_write("send_coords", 0,
            concat_message(SEND_COORDS, send_coords_data(coords, speed, mode)))

is_in_angle_position_data(degrees) ==
    encode_int16_vec([k \in 1..Len(degrees) |-> angle_to_int(degrees[k])]) \o <<0>>

is_in_angle_position ==
    /\ MayCall
    /\ \E degrees \in Arrays6 :
        connection_write_and_read("is_in_angle_position", 0,
            concat_message(IS_IN_POSITION, is_in_angle_position_data(degrees)))
    /\ ret' = IF last'.ok THEN scalar_result(last'.reply) ELSE Err

is_in_coord_position_data(coords) ==
    encode_int16_vec(coords_to_int_vec(coords)) \o <<1>>

is_in_coord_position ==
    /\ MayCall
    /\ \E coords \in Slices :
        connection_write_and_read("is_in_coord_position", 0,
            concat_message(IS_IN_POSITION, is_in_coord_position_data(coords)))
    /\ ret' = IF last'.ok THEN scalar_result(last'.reply) ELSE Err

is_moving ==
    /\ MayCall
    /\ connection_write_and_read("is_moving", 0,
            concat_message(IS_MOVING, <<>>))
    /\ ret' = IF last'.ok THEN scalar_result(last'.reply) ELSE Err

jog_angle_data(id, direction, speed) == <<id, direction, speed>>

jog_angle ==
    /\ MayCall
    /\ \E id \in Angle, direction \in Direction, speed \in Speeds :
        connection_write("jog_angle", id,
            concat_message(JOG_ANGLE, jog_angle_data(id, direction, speed)))

\* jog_coord writing the axis id the way send_coord does.
jog_coord_data_minus_one(id, direction, speed) == <<id - 1, direction, speed>>

jog_coord_data(id, direction, speed) == <<id, direction, speed>>

jog_coord ==
    /\ MayCall
    /\ \E id \in Coord, direction \in Direction, speed \in Speeds :
        connection_write("jog_coord", id,
            concat_message(JOG_COORD, jog_coord_data(id, direction, speed)))

jog_stop ==
    /\ MayCall
    /\ connection_write("jog_stop", 0, concat_message(JOG_STOP, <<>>))

pause ==
    /\ MayCall
    /\ connection_write("pause", 0, concat_message(PAUSE, <<>>))

is_paused ==
    /\ MayCall
    /\ connection_write_and_read("is_paused", 0,
            concat_message(IS_PAUSED, <<>>))
    /\ ret' = IF last'.ok THEN scalar_result(last'.reply) ELSE Err

resume ==
    /\ MayCall
    /\ connection_write("resume", 0, concat_message(RESUME, <<>>))

stop ==
    /\ MayCall
    /\ connection_write("stop", 0, concat_message(STOP, <<>>))

set_encoder_data(id, encoder) == <<id>> \o encode_int16(encoder)

set_encoder ==
    /\ MayCall
    /\ \E id \in Angle, encoder \in Encoders :
        connection_write("set_encoder", id,
            concat_message(SET_ENCODER, set_encoder_data(id, encoder)))

get_encoder ==
    /\ MayCall
    /\ \E id \in Angle :
        connection_write_and_read("get_encoder", id,
            concat_message(GET_ENCODER, <<id>>))
    /\ ret' = IF last'.ok THEN scalar_result(last'.reply) ELSE Err

\* MyCobotOperator::new(connection): nothing has been sent.
Init ==
    /\ overflow_checks \in BOOLEAN
    /\ history = <<>>
    /\ conn_log = <<>>
    /\ wire = <<>>
    /\ last = NoCall
    /\ ret = NoReturn
    /\ CodecIdle /\ UnitIdle

Next ==
    \/ version \/ power_on \/ power_off \/ is_power_on \/ release_all_servos
    \/ is_controller_connected \/ get_angles \/ send_angle \/ send_angles
    \/ get_coords \/ send_coord \/ send_coords \/ is_in_angle_position
    \/ is_in_coord_position \/ is_moving \/ jog_angle \/ jog_coord \/ jog_stop
    \/ pause \/ is_paused \/ resume \/ stop \/ set_encoder \/ get_encoder

Spec == Init /\ [][Next]_vars

---------------------------------------------------------------------------
(* What the claims speak of. *)

\* No two consecutive sentinel bytes in s.
NoSentinelPair(s) ==
    \A i \in 1..(Len(s) - 1) : ~(s[i] = HEADER /\ s[i + 1] = HEADER)

\* The reply buffer is the whole frame behind the noise, nothing cut off.
WholeFrame == data = noise \o concat_message(cmd, command_data)

\* The opcode each public operation tags its frame with.
GenreOf(op) ==
    CASE op = "version" -> VERSION
      [] op = "power_on" -> POWER_ON
      [] op = "power_off" -> POWER_OFF
      [] op = "is_power_on" -> IS_POWER_ON
      [] op = "release_all_servos" -> RELEASE_ALL_SERVOS
      [] op = "is_controller_connected" -> IS_CONTROLLER_CONNECTED
      [] op = "get_angles" -> GET_ANGLES
      [] op = "send_angle" -> SEND_ANGLE
      [] op = "send_angles" -> SEND_ANGLES
      [] op = "get_coords" -> GET_COORDS
      [] op = "send_coord" -> SEND_COORD
      [] op = "send_coords" -> SEND_COORDS
      [] op = "is_in_angle_position" -> IS_IN_POSITION
      [] op = "is_in_coord_position" -> IS_IN_POSITION
      [] op = "is_moving" -> IS_MOVING
      [] op = "jog_angle" -> JOG_ANGLE
      [] op = "jog_coord" -> JOG_COORD
      [] op = "jog_stop" -> JOG_STOP
      [] op = "pause" -> PAUSE
      [] op = "is_paused" -> IS_PAUSED
      [] op = "resume" -> RESUME
      [] op = "stop" -> STOP
      [] op = "set_encoder" -> SET_ENCODER
      [] op = "get_encoder" -> GET_ENCODER

\* The operations that read a reply (write_and_read); the others only write.
Queries ==
    {"version", "is_power_on", "is_controller_connected", "get_angles", "get_coords",
     "is_in_angle_position", "is_in_coord_position", "is_moving", "is_paused",
     "get_encoder"}

ScalarQueries ==
    {"is_power_on", "is_controller_connected", "is_in_angle_position",
     "is_in_coord_position", "is_moving", "is_paused", "get_encoder"}

\* The transaction the Connection is to see for operation op.
Transaction(op) ==
    [call |-> IF op \in Queries THEN "write_and_read" ELSE "write",
     genre |-> GenreOf(op)]

\* The scaled value of the unit codec's input, truncated toward zero.
ScaledInput ==
    TruncDiv(input * (IF unit_fn = "angle_to_int" THEN 100 ELSE 10), Grid)

\* t reduced modulo 2^16 into the signed 16-bit range.
Wrap16(t) == ((t + 32768) % 65536) - 32768

---------------------------------------------------------------------------
(* The claims. *)

\* C1: round trip of the frame codec.  For every opcode and every payload of
\* length 0..252 without two consecutive sentinel bytes, the slice that
\* process_received selects from concat_message(op, payload), asked for the
\* same opcode, is exactly the payload.
C1_RoundTrip ==
    ( /\ phase = "done" /\ noise = <<>> /\ WholeFrame
      /\ genre = cmd
      /\ Len(command_data) <= 252
      /\ NoSentinelPair(command_data) )
    => valid_data = [sliced |-> TRUE, slice |-> command_data]

\* C1's case: the longest payload of the claim went through the round trip.
C1_Witness ==
    /\ phase = "done" /\ noise = <<>> /\ WholeFrame /\ genre = cmd
    /\ Len(command_data) = 252
    /\ valid_data.sliced /\ valid_data.slice = command_data

\* C2 as stated: for every frame F = concat_message(op, payload) and every
\* prefix P without two consecutive sentinel bytes (P may end in a single
\* sentinel byte), process_received(P ++ F, op) gives what
\* process_received(F, op) gives.
C2_LeadingNoiseAsClaimed ==
    ( /\ phase = "done" /\ WholeFrame /\ genre = cmd
      /\ NoSentinelPair(noise) )
    => received = process_received(concat_message(cmd, command_data), genre)

\* C2 as amended: the same for every prefix P that holds no two consecutive
\* sentinel bytes and does not end in a sentinel byte: process_received(P ++ F, op)
\* ends as process_received(F, op) does (the same values, or the same panic).
C2_LeadingNoise ==
    ( /\ phase = "done" /\ WholeFrame /\ genre = cmd
      /\ NoSentinelPair(noise)
      /\ (noise = <<>> \/ noise[Len(noise)] # HEADER) )
    => received = process_received(concat_message(cmd, command_data), genre)

\* C2's case: a frame behind noise that holds a sentinel byte was parsed and
\* its values were returned.
C2_Witness ==
    /\ phase = "done" /\ WholeFrame /\ genre = cmd
    /\ Len(noise) = 2 /\ noise[1] = HEADER /\ noise[2] # HEADER
    /\ received.outcome = "return" /\ received.vals # <<>>

\* C3: protocol anomalies never surface as a failure.  For every reply
\* buffer (empty, one byte, no sentinel pair, cut short, declared length
\* below 2, declared payload length 0) process_received returns a sequence
\* and never panics.
C3_NeverAborts ==
    phase = "done" => received.outcome = "return"

\* C9: payload decoding dispatches on the payload's byte length.  Twelve
\* bytes give six signed big-endian 16-bit values; two bytes give one such
\* value, or for the servo-enabled opcode the second byte as a signed 8-bit
\* value; any other length gives exactly one value, a signed 8-bit scalar.
C9_DecodeDispatch ==
    (phase = "done" /\ valid_data.sliced) =>
        LET payload == valid_data.slice
            n == Len(payload)
        IN  /\ received.outcome = "return"
            /\ IF n = 12
               THEN received.vals =
                        [k \in 1..6 |-> read_i16(payload[2 * k - 1], payload[2 * k])]
               ELSE IF n = 2
               THEN received.vals =
                        IF genre = IS_SERVO_ENABLE
                        THEN <<from_be_bytes(payload[2])>>
                        ELSE <<read_i16(payload[1], payload[2])>>
               ELSE /\ Len(received.vals) = 1
                    /\ n > 0 => received.vals[1] = from_be_bytes(payload[1])

\* C4: is_power_on() returns Ok(-1) whenever the transport call succeeds and
\* the reply holds no two consecutive sentinel bytes, empty or not.
C4_PowerOnNoHeader ==
    (last.op = "is_power_on" /\ last.ok /\ NoSentinelPair(last.reply))
    => ret = OkScalar(-1)

\* C5: every scalar query returns the scalar that parsing the reply for the
\* query's opcode and decoding its payload yields, and -1 exactly when that
\* yields no value.
C5_ScalarQueryDecodes ==
    (last.op \in ScalarQueries /\ last.ok) =>
        LET r == process_received(last.reply, GenreOf(last.op))
        IN  r.outcome = "return" =>
                ret = OkScalar(IF r.vals = <<>> THEN -1 ELSE r.vals[1])

\* C6: each public operation issues exactly one Connection call, write for a
\* command and write_and_read for a query, also when that call fails, whose
\* error it then returns: after n operations the connection has seen exactly
\* n transactions, in call order.
C6_OneTransactionPerOperation ==
    /\ Len(conn_log) = Len(history)
    /\ \A i \in 1..Len(history) :
        i <= Len(conn_log) /\ conn_log[i] = Transaction(history[i])
    /\ history # <<>> => (ret.outcome = "Err" <=> ~last.ok)

\* C6's case: a query, then a command whose transport call failed.
C6_Witness ==
    /\ Len(history) = 2
    /\ history[1] = "get_angles" /\ history[2] = "send_angles"
    /\ ~last.ok /\ ret = Err
    /\ Len(conn_log) = 2

\* C7: every frame handed to the Connection, for any arguments, is
\* [SENTINEL, SENTINEL, L, opcode, payload..., SENTINEL] with L the actual
\* payload length plus 2.
C7_FrameLength ==
    history # <<>> =>
        LET n == Len(wire) - 5
        IN  /\ n >= 0
            /\ wire[1] = HEADER /\ wire[2] = HEADER
            /\ wire[3] = n + 2
            /\ wire[4] = GenreOf(last.op)
            /\ wire[Len(wire)] = FOOTER

\* C8: unit encoding narrows by truncation and wraps on overflow.
\* angle_to_int(d) and coord_to_int(m) are d*100 and m*10 truncated toward
\* zero when that lies in [-32768, 32767], and that truncated integer
\* reduced modulo 2^16 into the signed 16-bit range when it lies outside.
C8_UnitEncodeWraps ==
    encoded.done => encoded.val = Wrap16(ScaledInput)

\* C10 as stated: the id byte written by send_coord and by jog_coord is the
\* axis ordinal minus one; a joint id in send_angle / jog_angle is unchanged.
C10_AxisIdAsClaimed ==
    /\ last.op \in {"send_coord", "jog_coord"} => At(wire, 4) = last.id - 1
    /\ last.op \in {"send_angle", "jog_angle"} => At(wire, 4) = last.id

\* C10 as amended: the id byte written by send_coord is the axis ordinal
\* minus one; the id byte written by jog_coord is the axis ordinal unchanged,
\* as a joint id is in send_angle / jog_angle.
C10_AxisId ==
    /\ last.op = "send_coord" => At(wire, 4) = last.id - 1
    /\ last.op = "jog_coord" => At(wire, 4) = last.id
    /\ last.op \in {"send_angle", "jog_angle"} => At(wire, 4) = last.id

\* C10's case: jog_coord was called for the sixth axis.
C10_Witness ==
    /\ last.op = "jog_coord" /\ last.id = 6
    /\ At(wire, 4) = 6

====
